---- MODULE Spec2Model ----
(***************************************************************************)
(* TextToEmojis (src/index.tsx): a message action that opens a dialog,     *)
(* validates a short text against the emoji servers ("guilds") the user    *)
(* has joined and adds one emoji reaction per character.                   *)
(*                                                                         *)
(* A text is a sequence of one-character strings.                          *)
(***************************************************************************)
EXTENDS Integers, Sequences, FiniteSets, TLC

(***************************************************************************)
(* Static tables                                                           *)
(***************************************************************************)

\* const EMOJI_TEXT_MAPPING: permitted character -> emoji name.
EMOJI_TEXT_MAPPING ==
    ("A" :> "A_") @@ ("B" :> "B_") @@ ("C" :> "C_") @@ ("D" :> "D_") @@
    ("E" :> "E_") @@ ("F" :> "F_") @@ ("G" :> "G_") @@ ("H" :> "H_") @@
    ("I" :> "I_") @@ ("J" :> "J_") @@ ("K" :> "K_") @@ ("L" :> "L_") @@
    ("M" :> "M_") @@ ("N" :> "N_") @@ ("O" :> "O_") @@ ("P" :> "P_") @@
    ("Q" :> "Q_") @@ ("R" :> "R_") @@ ("S" :> "S_") @@ ("T" :> "T_") @@
    ("U" :> "U_") @@ ("V" :> "V_") @@ ("W" :> "W_") @@ ("X" :> "X_") @@
    ("Y" :> "Y_") @@ ("Z" :> "Z_") @@ (" " :> "Empty_Space_Nothing_Tab") @@
    ("?" :> "QuestionMark") @@ ("!" :> "ExclamationMark") @@
    ("#" :> "Hashtag") @@ ("/" :> "Slash") @@ ("@" :> "AtSign") @@
    ("$" :> "DollarSign") @@ ("," :> "Comma") @@ ("." :> "Dot") @@
    (":" :> "Colon") @@ (")" :> "RightParentheses") @@
    ("(" :> "LeftParentheses") @@ ("_" :> "Underscore") @@
    ("*" :> "Asterisk") @@ ("1" :> "Number1One") @@ ("2" :> "Number2Two") @@
    ("3" :> "Number3Three") @@ ("4" :> "Number4Four") @@
    ("5" :> "Number5Five") @@ ("6" :> "Number6Six") @@
    ("7" :> "Number7Seven") @@ ("8" :> "Number8Eight") @@
    ("9" :> "Number9Nine") @@ ("0" :> "Number0Zero")

\* const GUILD_IDS: priority 1..6 -> guild id.
GUILD_IDS ==
    (1 :> "1339215110685724742") @@ (2 :> "1339264485386621078") @@
    (3 :> "1339265921113391226") @@ (4 :> "1339267572931100764") @@
    (5 :> "1339268634325024800") @@ (6 :> "1339272089621889195")

\* A guild id that is not in GUILD_IDS (some other server of the user).
OtherGuildId == "1000000000000000000"

\* if (input.length > 20)
MAX_TEXT_LENGTH == 20

\* if (maxCount > 6)
MAX_REPEATS == 6

(***************************************************************************)
(* JavaScript string and object helpers                                    *)
(***************************************************************************)

LowerLetters ==
    <<"a", "b", "c", "d", "e", "f", "g", "h", "i", "j", "k", "l", "m",
      "n", "o", "p", "q", "r", "s", "t", "u", "v", "w", "x", "y", "z">>

UpperLetters ==
    <<"A", "B", "C", "D", "E", "F", "G", "H", "I", "J", "K", "L", "M",
      "N", "O", "P", "Q", "R", "S", "T", "U", "V", "W", "X", "Y", "Z">>

\* String.prototype.toUpperCase on one character.
CharToUpperCase(c) ==
    IF \E i \in DOMAIN LowerLetters : LowerLetters[i] = c
    THEN UpperLetters[CHOOSE i \in DOMAIN LowerLetters : LowerLetters[i] = c]
    ELSE c

\* String.prototype.toUpperCase on a text.
toUpperCase(str) == [i \in DOMAIN str |-> CharToUpperCase(str[i])]

\* The characters String.prototype.trim strips (those the model's texts use).
Whitespace == {" ", "\t", "\n"}

\* !input.trim(): the text is empty or whitespace only.
IsBlank(str) == \A i \in DOMAIN str : str[i] \in Whitespace

\* Property keys that are canonical array indices: an object lists them first,
\* in ascending numeric order, whatever the insertion order.
IndexKeys == <<"0", "1", "2", "3", "4", "5", "6", "7", "8", "9">>

\* The distinct characters of str in order of first occurrence: the order in
\* which countCharacters creates the properties of charCount.
RECURSIVE InsertionOrder(_)
InsertionOrder(str) ==
    IF str = <<>> THEN <<>>
    ELSE LET init == SubSeq(str, 1, Len(str) - 1)
             last == str[Len(str)]
             rest == InsertionOrder(init)
         IN  IF \E i \in DOMAIN init : init[i] = last THEN rest
             ELSE Append(rest, last)

SelectIn(seq, S) == SelectSeq(seq, LAMBDA x : x \in S)

\* The insertion-ordered keys with no index-key reordering.
OwnKeysInsertionOnly(keys) == keys

\* Object.entries / Object.values key order for an object whose properties
\* were created in the order keys: index keys ascending, then the others in
\* insertion order.
OwnKeys(keys) ==
    LET present == {keys[i] : i \in DOMAIN keys}
        indexSet == {IndexKeys[i] : i \in DOMAIN IndexKeys}
    IN  SelectIn(IndexKeys, present) \o SelectIn(keys, present \ indexSet)

\* countCharacters(str): charCount as a function on the characters of str.
countCharacters(str) ==
    [c \in {str[i] : i \in DOMAIN str} |->
        Cardinality({i \in DOMAIN str : str[i] = c})]

\* Object.entries(charCount) for charCount = countCharacters(str).
Entries(str) ==
    LET keys == OwnKeys(InsertionOrder(str))
        cc == countCharacters(str)
    IN  [i \in DOMAIN keys |-> <<keys[i], cc[keys[i]]>>]

\* Math.max(...values) of a non-empty collection of numbers.
Max(S) == CHOOSE x \in S : \A y \in S : y <= x

\* Array.prototype.join(", ") on a list of characters.
RECURSIVE JoinComma(_)
JoinComma(list) ==
    IF Len(list) <= 1 THEN list
    ELSE JoinComma(SubSeq(list, 1, Len(list) - 1)) \o <<", ", list[Len(list)]>>

(***************************************************************************)
(* validateText                                                            *)
(***************************************************************************)

\* The values validateText returns: null or one of ERROR_MESSAGES, with the
\* text a message function interpolates.
Valid == [kind |-> "null", chars |-> <<>>]
Err(kind) == [kind |-> kind, chars |-> <<>>]
ErrWith(kind, chars) == [kind |-> kind, chars |-> chars]

\* The character check without the upper-casing of the character.
IsPermittedCaseSensitive(char) ==
    char \in DOMAIN EMOJI_TEXT_MAPPING \/ char = " "

\* The character check of validateText's loop.
IsPermitted(char) ==
    LET upperChar == CharToUpperCase(char)
    IN  upperChar \in DOMAIN EMOJI_TEXT_MAPPING \/ upperChar = " "

\* validateText without the rule on the number of guilds.
validateTextNoGuildRule(input, guildList) ==
    LET entries == Entries(toUpperCase(input))
        maxCount == Max({entries[i][2] : i \in DOMAIN entries})
    IN  IF IsBlank(input) THEN Err("EMPTY_TEXT")
        ELSE IF Len(input) > MAX_TEXT_LENGTH THEN Err("TOO_MANY_CHARS_TOTAL")
        ELSE IF \E i \in DOMAIN input : ~IsPermitted(input[i])
             THEN Err("INVALID_CHAR")
        ELSE IF maxCount > MAX_REPEATS THEN Err("TOO_MANY_CHARS")
        ELSE Valid

\* validateText with the length rule after the repeat rule.
validateTextLengthLate(input, guildList) ==
    LET entries == Entries(toUpperCase(input))
        maxCount == Max({entries[i][2] : i \in DOMAIN entries})
        exceeding == SelectSeq(entries, LAMBDA e : e[2] > Len(guildList))
        charsExceeding == [i \in DOMAIN exceeding |-> exceeding[i][1]]
    IN  IF IsBlank(input) THEN Err("EMPTY_TEXT")
        ELSE IF \E i \in DOMAIN input : ~IsPermitted(input[i])
             THEN Err("INVALID_CHAR")
        ELSE IF maxCount > MAX_REPEATS THEN Err("TOO_MANY_CHARS")
        ELSE IF Len(input) > MAX_TEXT_LENGTH THEN Err("TOO_MANY_CHARS_TOTAL")
        ELSE IF maxCount > Len(guildList)
             THEN IF Len(charsExceeding) = 1
                  THEN ErrWith("SINGLE_CHAR_LIMIT", <<charsExceeding[1]>>)
                  ELSE ErrWith("NOT_ENOUGH_GUILDS", JoinComma(charsExceeding))
        ELSE Valid

\* validateText applying its guild rule only when there is a guild.
validateTextGuildRuleIfAny(input, guildList) ==
    LET entries == Entries(toUpperCase(input))
        maxCount == Max({entries[i][2] : i \in DOMAIN entries})
        exceeding == SelectSeq(entries, LAMBDA e : e[2] > Len(guildList))
        charsExceeding == [i \in DOMAIN exceeding |-> exceeding[i][1]]
    IN  IF IsBlank(input) THEN Err("EMPTY_TEXT")
        ELSE IF Len(input) > MAX_TEXT_LENGTH THEN Err("TOO_MANY_CHARS_TOTAL")
        ELSE IF \E i \in DOMAIN input : ~IsPermitted(input[i])
             THEN Err("INVALID_CHAR")
        ELSE IF maxCount > MAX_REPEATS THEN Err("TOO_MANY_CHARS")
        ELSE IF Len(guildList) > 0 /\ maxCount > Len(guildList)
             THEN IF Len(charsExceeding) = 1
                  THEN ErrWith("SINGLE_CHAR_LIMIT", <<charsExceeding[1]>>)
                  ELSE ErrWith("NOT_ENOUGH_GUILDS", JoinComma(charsExceeding))
        ELSE Valid

\* validateText(input), with guildList the dialog's guilds state it reads.
validateText(input, guildList) ==
    LET entries == Entries(toUpperCase(input))
        maxCount == Max({entries[i][2] : i \in DOMAIN entries})
        exceeding == SelectSeq(entries, LAMBDA e : e[2] > Len(guildList))
        charsExceeding == [i \in DOMAIN exceeding |-> exceeding[i][1]]
    IN  IF IsBlank(input) THEN Err("EMPTY_TEXT")
        ELSE IF Len(input) > MAX_TEXT_LENGTH THEN Err("TOO_MANY_CHARS_TOTAL")
        ELSE IF \E i \in DOMAIN input : ~IsPermitted(input[i])
             THEN Err("INVALID_CHAR")
        ELSE IF maxCount > MAX_REPEATS THEN Err("TOO_MANY_CHARS")
        ELSE IF maxCount > Len(guildList)
             THEN IF Len(charsExceeding) = 1
                  THEN ErrWith("SINGLE_CHAR_LIMIT", <<charsExceeding[1]>>)
                  ELSE ErrWith("NOT_ENOUGH_GUILDS", JoinComma(charsExceeding))
        ELSE Valid

(***************************************************************************)
(* Guilds, emojis and the directory                                        *)
(***************************************************************************)

\* The ids of GUILD_IDS: Object.values(GUILD_IDS).
targetGuildIds == {GUILD_IDS[p] : p \in DOMAIN GUILD_IDS}

\* An emoji record of a guild's catalog: {name, id}; the id is the guild's own.
Emoji(gid, name) == [name |-> name, id |-> <<gid, name>>]

\* guild.emojis.find(e => e.name === emojiName) found nothing.
NoEmoji == [name |-> "", id |-> <<>>]

\* A joined target guild as getUserGuilds builds it: {...guild, emojis}.
GuildEntry(gid, names) == [id |-> gid, emojis |-> {Emoji(gid, n) : n \in names}]

\* guild.emojis.find(e => e.name === emojiName)
FindEmoji(guild, emojiName) ==
    IF \E e \in guild.emojis : e.name = emojiName
    THEN CHOOSE e \in guild.emojis : e.name = emojiName
    ELSE NoEmoji

\* Object.entries(GUILD_IDS).find(([_, id]) => id === g.id)?.[0], parsed, with
\* "999" for a guild that is not in GUILD_IDS.
PriorityOf(gid) ==
    IF \E p \in DOMAIN GUILD_IDS : GUILD_IDS[p] = gid
    THEN CHOOSE p \in DOMAIN GUILD_IDS : GUILD_IDS[p] = gid
    ELSE 999

\* Insertion of a guild into a list that is sorted by PriorityOf, after the
\* entries that compare equal (Array.prototype.sort is stable).
RECURSIVE InsertByPriority(_, _)
InsertByPriority(sorted, g) ==
    IF sorted = <<>> THEN <<g>>
    ELSE IF PriorityOf(sorted[Len(sorted)].id) <= PriorityOf(g.id)
         THEN Append(sorted, g)
         ELSE Append(InsertByPriority(SubSeq(sorted, 1, Len(sorted) - 1), g),
                     sorted[Len(sorted)])

\* The guild list left in the order the lookup returned it.
SortGuildsUnsorted(list) == list

\* [...guilds].sort((a, b) => priority(a) - priority(b))
RECURSIVE SortGuilds(_)
SortGuilds(list) ==
    IF list = <<>> THEN <<>>
    ELSE InsertByPriority(SortGuilds(SubSeq(list, 1, Len(list) - 1)),
                          list[Len(list)])

Min(a, b) == IF a <= b THEN a ELSE b

\* The sum of the counters of charUsageCount.
RECURSIVE SumOver(_, _)
SumOver(u, S) ==
    IF S = {} THEN 0
    ELSE LET x == CHOOSE y \in S : TRUE IN u[x] + SumOver(u, S \ {x})

\* The counter read for a character when one counter serves all characters.
UsageShared(u, c) == SumOver(u, DOMAIN u)

\* charUsageCount[char], 0 when the property does not exist yet.
Usage(u, c) == IF c \in DOMAIN u THEN u[c] ELSE 0

\* charUsageCount[char]++
Bump(u, c) == [x \in DOMAIN u \cup {c} |-> IF x = c THEN Usage(u, c) + 1 ELSE u[x]]

(***************************************************************************)
(* Bounds of the model                                                     *)
(***************************************************************************)

\* Dialogs opened in one behaviour (the keys openModal hands out).
MaxDialogs == 3

\* Runs of equal characters an input of validateText is built from.
MaxRuns == 3

\* Length of the texts typed into a dialog whose processing run is followed.
MaxRunLen == 3

\* Milliseconds one step of the clock advances.
TickMs == 125

\* if (currentTime - this.lastClickTime < 250)
CLICK_COOLDOWN == 250

Keys == 1 .. MaxDialogs

(***************************************************************************)
(* State                                                                   *)
(***************************************************************************)

VARIABLES
    \* ---- a call of validateText on its own
    input,              \* the argument
    inputGuilds,        \* the guilds state the call reads
    result,             \* <<>> before the call, <<value>> after it
    \* ---- the plugin object
    sinceClick,         \* Date.now() - lastClickTime, saturated at CLICK_COOLDOWN
    sinceAnyClick,      \* the time since the handler last ran, dropped clicks
                        \* included, saturated alike (the plugin keeps no such
                        \* field: lastClickTime is written by accepted clicks)
    currentModalKey,    \* 0 for null
    cachedGuilds,
    lastGuildCount,
    \* ---- the host
    nextKey,            \* the key the next openModal returns
    modals,             \* the keys of the open modals
    notices,            \* the notices the last handler dispatched
    userGuilds,         \* the guild ids of the user, in the directory's order
    catalog,            \* guild id -> the emoji names of its catalog
    \* ---- one EmojiModal per key
    dialog,             \* its React state: text, error, processing, guilds,
                        \* loading, and its pending 3000 ms timer
    fetch,              \* its fetchGuilds effect with the getUserGuilds call
    run,                \* its processText call
    assigned            \* the characters the run has handled, each with the
                        \* guild chosen and what became of the request

callVars == <<input, inputGuilds, result>>
pluginVars == <<sinceClick, sinceAnyClick, currentModalKey, cachedGuilds,
                lastGuildCount>>
envVars == <<userGuilds, catalog>>
taskVars == <<fetch, run, assigned>>
vars == <<callVars, pluginVars, nextKey, modals, notices, envVars, dialog,
          taskVars>>

\* setError("")
NoError == Err("")

\* The React.useState initial values of an EmojiModal.
InitialDialog ==
    [text |-> <<>>, error |-> NoError, processing |-> FALSE, guilds |-> <<>>,
     loading |-> TRUE, timer |-> "none"]

\* A lookup before its effect ran: where it stands, the cache it found
\* outdated (<<>> when it found none), the membership answer, the guild whose
\* catalog it awaits, and the entries built so far.
NoFetch == [pc |-> "mount", stale |-> <<>>, body |-> <<>>, idx |-> 0,
            joined |-> <<>>]
DoneFetch == [NoFetch EXCEPT !.pc = "done"]
NoRun == [pc |-> "idle", upperText |-> <<>>, guilds |-> <<>>,
          sortedGuilds |-> <<>>, i |-> 0, charUsageCount |-> <<>>]

\* The state after the plugin object is constructed, with no dialog yet.
InitPlugin ==
    /\ sinceClick = CLICK_COOLDOWN
    /\ sinceAnyClick = CLICK_COOLDOWN
    /\ currentModalKey = 0
    /\ cachedGuilds = <<>>
    /\ lastGuildCount = 0
    /\ nextKey = 1
    /\ modals = {}
    /\ notices = <<>>
    /\ dialog = [k \in Keys |-> InitialDialog]
    /\ fetch = [k \in Keys |-> NoFetch]
    /\ run = [k \in Keys |-> NoRun]
    /\ assigned = [k \in Keys |-> <<>>]

NoCall ==
    /\ input = <<>>
    /\ inputGuilds = <<>>
    /\ result = <<>>

(***************************************************************************)
(* validateText called on its own                                          *)
(***************************************************************************)

\* The characters of the inputs: a letter, a lower-case letter, a digit, the
\* space and a character that is not permitted.
ValChars == {"A", "b", "1", " ", "~"}

\* The lengths of a run of equal characters.
RunLens == {1, 2, 7}

Repeat(c, n) == [i \in 1 .. n |-> c]

RECURSIVE TextsOfRuns(_)
TextsOfRuns(n) ==
    IF n = 0 THEN {<<>>}
    ELSE LET shorter == TextsOfRuns(n - 1)
         IN  shorter \cup {t \o Repeat(c, m) : t \in shorter, c \in ValChars, m \in RunLens}

\* The guilds state of a dialog whose user joined the n first guilds of
\* GUILD_IDS and every catalog request failed.
FirstGuilds(n) == [p \in 1 .. n |-> GuildEntry(GUILD_IDS[p], {})]

InitValidate ==
    /\ InitPlugin
    /\ userGuilds = <<>>
    /\ catalog = [g \in targetGuildIds |-> {}]
    /\ input \in TextsOfRuns(MaxRuns)
    /\ inputGuilds \in {FirstGuilds(n) : n \in 0 .. Cardinality(targetGuildIds)}
    /\ result = <<>>

\* const error = validateText(...)
CallValidateText ==
    /\ result = <<>>
    /\ result' = <<validateText(input, inputGuilds)>>
    /\ UNCHANGED <<input, inputGuilds, pluginVars, nextKey, modals, notices, envVars,
                   dialog, taskVars>>

NextValidate == CallValidateText

SpecValidate == InitValidate /\ [][NextValidate]_vars

(***************************************************************************)
(* Properties of validateText                                              *)
(***************************************************************************)

Returned == result # <<>>
availableSpaceCount == Len(inputGuilds)

\* Occurrences of the upper-case character c in the input, case-insensitively.
Occurrences(c) == Cardinality({i \in DOMAIN input : CharToUpperCase(input[i]) = c})
UpperChars == {CharToUpperCase(input[i]) : i \in DOMAIN input}
FirstOccurrence(c) ==
    CHOOSE i \in DOMAIN input :
        /\ CharToUpperCase(input[i]) = c
        /\ \A j \in 1 .. i - 1 : CharToUpperCase(input[j]) # c

PermittedKeys ==
    {"A", "B", "C", "D", "E", "F", "G", "H", "I", "J", "K", "L", "M", "N", "O",
     "P", "Q", "R", "S", "T", "U", "V", "W", "X", "Y", "Z", " ", "?", "!", "#",
     "/", "@", "$", ",", ".", ":", ")", "(", "_", "*", "1", "2", "3", "4", "5",
     "6", "7", "8", "9", "0"}
OnlyPermitted == UpperChars \subseteq PermittedKeys
OnlyWhitespace == \A i \in DOMAIN input : input[i] = " "
Limit == IF availableSpaceCount < 6 THEN availableSpaceCount ELSE 6

C1_Premise ==
    /\ Returned
    /\ Len(input) <= 20
    /\ OnlyPermitted
    /\ \A c \in UpperChars : Occurrences(c) <= Limit

\* C1 as stated: every text of at most 20 permitted characters in which every
\* character occurs at most min(6, availableSpaceCount) times is Valid.
C1_AlwaysValid == C1_Premise => result[1].kind = "null"

\* C1, amended: ... every such text that has a character other than the space
\* is Valid.
C1_ValidIfNotBlank == (C1_Premise /\ ~OnlyWhitespace) => result[1].kind = "null"

\* A lower-case letter, a digit and a space, one of them exactly
\* availableSpaceCount times, in a text found Valid.
C1_Witness ==
    /\ C1_Premise
    /\ {"b", "1", " "} \subseteq {input[i] : i \in DOMAIN input}
    /\ \E c \in UpperChars : Occurrences(c) = availableSpaceCount
    /\ result[1].kind = "null"

\* The rule that fails first, in the order of the spec.
FirstFailure ==
    IF OnlyWhitespace THEN {"EMPTY_TEXT"}
    ELSE IF Len(input) > 20 THEN {"TOO_MANY_CHARS_TOTAL"}
    ELSE IF ~OnlyPermitted THEN {"INVALID_CHAR"}
    ELSE IF \E c \in UpperChars : Occurrences(c) > 6 THEN {"TOO_MANY_CHARS"}
    ELSE IF \E c \in UpperChars : Occurrences(c) > availableSpaceCount
         THEN {"SINGLE_CHAR_LIMIT", "NOT_ENOUGH_GUILDS"}
    ELSE {"null"}

C2_Order == Returned => result[1].kind \in FirstFailure

\* C2 as stated: the first failing rule decides; any text longer than 20 is
\* TooLong; any text of at most 20 permitted characters with a character
\* occurring more than 6 times is TooManyRepeats, for every count of spaces.
C2_AnyText ==
    /\ C2_Order
    /\ (Returned /\ Len(input) > 20) => result[1].kind = "TOO_MANY_CHARS_TOTAL"
    /\ (Returned /\ Len(input) <= 20 /\ OnlyPermitted
            /\ \E c \in UpperChars : Occurrences(c) > 6)
        => result[1].kind = "TOO_MANY_CHARS"

\* C2, amended: ... any text longer than 20 that is not whitespace only is
\* TooLong; any text of at most 20 permitted characters that is not
\* whitespace only, with a character occurring more than 6 times, is
\* TooManyRepeats.
C2_NotBlankText ==
    /\ C2_Order
    /\ (Returned /\ ~OnlyWhitespace /\ Len(input) > 20)
        => result[1].kind = "TOO_MANY_CHARS_TOTAL"
    /\ (Returned /\ ~OnlyWhitespace /\ Len(input) <= 20 /\ OnlyPermitted
            /\ \E c \in UpperChars : Occurrences(c) > 6)
        => result[1].kind = "TOO_MANY_CHARS"

\* A text longer than 20 with a character that is not permitted and a
\* character occurring 14 times, found TooLong.
C2_Witness ==
    /\ Returned
    /\ Len(input) > 20
    /\ ~OnlyPermitted
    /\ \E c \in UpperChars : Occurrences(c) > 6 /\ c \in PermittedKeys
    /\ result[1].kind = "TOO_MANY_CHARS_TOTAL"

\* The characters that occur more often than there are spaces.
Exceeding == {c \in UpperChars : Occurrences(c) > availableSpaceCount}
C3_Premise == Returned /\ FirstFailure = {"SINGLE_CHAR_LIMIT", "NOT_ENOUGH_GUILDS"}

\* The characters a comma-joined list names, when it is one.
Listed(joined) == [p \in 1 .. (Len(joined) + 1) \div 2 |-> joined[2 * p - 1]]
IsCommaJoined(joined) ==
    /\ Len(joined) % 2 = 1
    /\ \A p \in 1 .. Len(joined) : p % 2 = 0 => joined[p] = ", "

\* The result names exactly the exceeding characters, each once, in an order
\* that Before(c, d) allows.
NamesExceeding(Before(_, _)) ==
    IF Cardinality(Exceeding) = 1
    THEN result[1] = [kind |-> "SINGLE_CHAR_LIMIT",
                      chars |-> <<CHOOSE c \in Exceeding : TRUE>>]
    ELSE /\ result[1].kind = "NOT_ENOUGH_GUILDS"
         /\ IsCommaJoined(result[1].chars)
         /\ LET list == Listed(result[1].chars)
            IN  /\ Len(list) = Cardinality(Exceeding)
                /\ {list[p] : p \in DOMAIN list} = Exceeding
                /\ \A p, q \in DOMAIN list : p < q => Before(list[p], list[q])

ByFirstOccurrence(c, d) == FirstOccurrence(c) < FirstOccurrence(d)

IsDigit(c) == c \in {"0", "1", "2", "3", "4", "5", "6", "7", "8", "9"}
DigitValue(c) == CHOOSE n \in 0 .. 9 : IndexKeys[n + 1] = c
DigitsFirst(c, d) ==
    IF IsDigit(c) /\ IsDigit(d) THEN DigitValue(c) < DigitValue(d)
    ELSE IF IsDigit(c) # IsDigit(d) THEN IsDigit(c)
    ELSE FirstOccurrence(c) < FirstOccurrence(d)

\* C3 as stated: one exceeding character gives SingleCharacterLimit naming it;
\* several give InsufficientSpaces listing them in order of first occurrence.
C3_FirstOccurrenceOrder == C3_Premise => NamesExceeding(ByFirstOccurrence)

\* C3, amended: ... several give InsufficientSpaces listing the exceeding
\* digits first, in ascending order, then the other exceeding characters in
\* order of first occurrence.
C3_DigitsThenFirstOccurrence == C3_Premise => NamesExceeding(DigitsFirst)

\* Two letters and a digit exceed, the digit occurring last in the text.
C3_Witness ==
    /\ C3_Premise
    /\ Exceeding = {"A", "B", "1"}
    /\ FirstOccurrence("B") < FirstOccurrence("A")
    /\ FirstOccurrence("A") < FirstOccurrence("1")
    /\ result[1] = [kind |-> "NOT_ENOUGH_GUILDS",
                    chars |-> <<"1", ", ", "B", ", ", "A">>]

(***************************************************************************)
(* The entry point: the message action                                     *)
(***************************************************************************)

ChannelKinds == {"none", "private", "guild"}

\* hasPermission(channelId, permission): channel is what ChannelStore knows of
\* the channel, can what PermissionStore.can answers.
hasPermission(channel, can) ==
    IF channel = "none" \/ channel = "private" THEN TRUE ELSE can

\* What closing dialog k leaves of its React state: nothing (it unmounts).
Unmount(d, k) == [d EXCEPT ![k] = InitialDialog]

\* The mount effect of a dialog that closes before the effect ran never runs.
AbandonFetch(k) ==
    IF fetch[k].pc = "mount" THEN [fetch EXCEPT ![k] = DoneFetch] ELSE fetch

\* The clock advances by ms (no further than the debounce needs it).
Tick(ms) ==
    /\ sinceAnyClick < CLICK_COOLDOWN
    /\ sinceClick' = Min(sinceClick + ms, CLICK_COOLDOWN)
    /\ sinceAnyClick' = Min(sinceAnyClick + ms, CLICK_COOLDOWN)
    /\ notices' = <<>>
    /\ UNCHANGED <<callVars, currentModalKey, cachedGuilds, lastGuildCount,
                   nextKey, modals, envVars, dialog, taskVars>>

\* The user joins or leaves guilds.
GuildsChange(w) ==
    /\ w # userGuilds
    /\ userGuilds' = w
    /\ notices' = <<>>
    /\ UNCHANGED <<callVars, pluginVars, nextKey, modals, catalog, dialog,
                   taskVars>>

\* The debounce test never dropping a click.
NeverOnCooldown == FALSE

\* if (currentTime - this.lastClickTime < 250)
OnCooldown == sinceClick < CLICK_COOLDOWN

\* The click handler with the hasExternalEmojiPerms check left out.
onClickNoExternalCheck(channel, canReact, canExt) ==
    LET react == hasPermission(channel, canReact)
    IN  /\ sinceAnyClick' = 0
        /\ IF OnCooldown
           THEN /\ notices' = <<>>
                /\ UNCHANGED <<sinceClick, currentModalKey, nextKey, modals, dialog,
                               fetch>>
           ELSE /\ sinceClick' = 0
                /\ IF currentModalKey # 0
                   THEN /\ notices' = <<>>
                        /\ modals' = modals \ {currentModalKey}
                        /\ dialog' = Unmount(dialog, currentModalKey)
                        /\ fetch' = AbandonFetch(currentModalKey)
                        /\ currentModalKey' = 0
                        /\ UNCHANGED nextKey
                   ELSE IF ~react
                   THEN /\ notices' = <<"NO_REACT_PERMISSION">>
                        /\ UNCHANGED <<currentModalKey, nextKey, modals, dialog, fetch>>
                   ELSE /\ nextKey <= MaxDialogs
                        /\ notices' = <<>>
                        /\ modals' = modals \cup {nextKey}
                        /\ currentModalKey' = nextKey
                        /\ nextKey' = nextKey + 1
                        /\ UNCHANGED <<dialog, fetch>>
        /\ UNCHANGED <<callVars, cachedGuilds, lastGuildCount, envVars, run, assigned>>

\* renderMessagePopoverButton(message).onClick
onClick(channel, canReact, canExt) ==
    LET react == hasPermission(channel, canReact)
        ext == hasPermission(channel, canExt)
    IN  /\ sinceAnyClick' = 0
        /\ IF OnCooldown
           THEN /\ notices' = <<>>
                /\ UNCHANGED <<sinceClick, currentModalKey, nextKey, modals, dialog,
                               fetch>>
           ELSE /\ sinceClick' = 0
                /\ IF currentModalKey # 0
                   THEN /\ notices' = <<>>
                        /\ modals' = modals \ {currentModalKey}
                        /\ dialog' = Unmount(dialog, currentModalKey)
                        /\ fetch' = AbandonFetch(currentModalKey)
                        /\ currentModalKey' = 0
                        /\ UNCHANGED nextKey
                   ELSE IF ~react
                   THEN /\ notices' = <<"NO_REACT_PERMISSION">>
                        /\ UNCHANGED <<currentModalKey, nextKey, modals, dialog, fetch>>
                   ELSE IF ~ext
                   THEN /\ notices' = <<"NO_NITRO">>
                        /\ UNCHANGED <<currentModalKey, nextKey, modals, dialog, fetch>>
                   ELSE /\ nextKey <= MaxDialogs
                        /\ notices' = <<>>
                        /\ modals' = modals \cup {nextKey}
                        /\ currentModalKey' = nextKey
                        /\ nextKey' = nextKey + 1
                        /\ UNCHANGED <<dialog, fetch>>
        /\ UNCHANGED <<callVars, cachedGuilds, lastGuildCount, envVars, run, assigned>>

(***************************************************************************)
(* The dialog: loading the guilds                                          *)
(***************************************************************************)

\* The cache test of getUserGuilds without the test that the cache is filled.
CacheIsFreshCountOnly == Len(userGuilds) = lastGuildCount

\* this.cachedGuilds.length > 0 && currentGuildCount === this.lastGuildCount,
\* with currentGuildCount the number of guilds of the user.
CacheIsFresh == Len(cachedGuilds) > 0 /\ Len(userGuilds) = lastGuildCount

\* The first index from on of body that holds a guild of GUILD_IDS, else 0.
NextTarget(body, from) ==
    IF \E t \in from .. Len(body) : body[t] \in targetGuildIds
    THEN CHOOSE t \in from .. Len(body) :
             /\ body[t] \in targetGuildIds
             /\ \A j \in from .. t - 1 : body[j] \notin targetGuildIds
    ELSE 0

\* fetchGuilds storing whatever list getUserGuilds returned, empty or not.
DeliverAnyList(k, list) ==
    /\ dialog' = IF k \in modals
                 THEN [dialog EXCEPT ![k].guilds = list, ![k].loading = FALSE]
                 ELSE dialog
    /\ notices' = <<>>
    /\ UNCHANGED <<modals, currentModalKey>>

\* fetchGuilds after plugin.getUserGuilds() returned list.
Deliver(k, list) ==
    IF Len(list) > 0
    THEN /\ dialog' = IF k \in modals
                      THEN [dialog EXCEPT ![k].guilds = list, ![k].loading = FALSE]
                      ELSE dialog
         /\ notices' = <<>>
         /\ UNCHANGED <<modals, currentModalKey>>
    ELSE /\ notices' = <<"NOT_IN_SERVER">>
         /\ modals' = modals \ {k}
         /\ currentModalKey' = 0
         /\ dialog' = Unmount(dialog, k)

\* The mount effect: fetchGuilds up to the first request of getUserGuilds,
\* or to its end when getUserGuilds answers from the cache.
fetchGuilds(k) ==
    /\ k \in modals
    /\ fetch[k].pc = "mount"
    /\ IF CacheIsFresh
       THEN /\ fetch' = [fetch EXCEPT ![k] = DoneFetch]
            /\ Deliver(k, cachedGuilds)
            /\ UNCHANGED <<cachedGuilds, lastGuildCount>>
       ELSE /\ lastGuildCount' = Len(userGuilds)
            /\ fetch' = [fetch EXCEPT ![k].pc = "guilds", ![k].stale = cachedGuilds]
            /\ notices' = <<>>
            /\ UNCHANGED <<cachedGuilds, modals, currentModalKey, dialog>>
    /\ UNCHANGED <<callVars, sinceClick, sinceAnyClick, nextKey, envVars, run, assigned>>

\* GET /users/@me/guilds answers (fetchUserGuilds returns [] when it fails);
\* getUserGuilds goes on to its first catalog request, or to its end.
GuildsResponse(k, ok) ==
    /\ fetch[k].pc = "guilds"
    /\ LET body == IF ok THEN userGuilds ELSE <<>>
           t == NextTarget(body, 1)
       IN  IF t # 0
           THEN /\ fetch' = [fetch EXCEPT ![k] =
                        [fetch[k] EXCEPT !.pc = "emojis", !.body = body, !.idx = t]]
                /\ notices' = <<>>
                /\ UNCHANGED <<cachedGuilds, modals, currentModalKey, dialog>>
           ELSE /\ fetch' = [fetch EXCEPT ![k] = DoneFetch]
                /\ cachedGuilds' = <<>>
                /\ Deliver(k, <<>>)
    /\ UNCHANGED <<callVars, sinceClick, sinceAnyClick, lastGuildCount, nextKey, envVars, run,
                   assigned>>

\* GET /guilds/{id}/emojis answers (fetchGuildEmojis returns [] when it
\* fails); getUserGuilds goes on to the next catalog request, or to its end.
EmojisResponse(k, ok) ==
    /\ fetch[k].pc = "emojis"
    /\ LET f == fetch[k]
           gid == f.body[f.idx]
           emojis == IF ok THEN catalog[gid] ELSE {}
           joined == Append(f.joined, GuildEntry(gid, emojis))
           t == NextTarget(f.body, f.idx + 1)
       IN  IF t # 0
           THEN /\ fetch' = [fetch EXCEPT ![k].idx = t, ![k].joined = joined]
                /\ notices' = <<>>
                /\ UNCHANGED <<cachedGuilds, modals, currentModalKey, dialog>>
           ELSE /\ fetch' = [fetch EXCEPT ![k] = DoneFetch]
                /\ cachedGuilds' = joined
                /\ Deliver(k, joined)
    /\ UNCHANGED <<callVars, sinceClick, sinceAnyClick, lastGuildCount, nextKey, envVars, run,
                   assigned>>

(***************************************************************************)
(* The dialog: its controls                                                *)
(***************************************************************************)

\* The textarea shows when there is no error and the guilds are loaded, and
\* is disabled while processing.
TextareaEnabled(k) ==
    /\ k \in modals
    /\ ~dialog[k].loading
    /\ ~dialog[k].processing
    /\ dialog[k].error = NoError

\* The Clear button: disabled={processing || loading}.
ClearEnabled(k) ==
    /\ k \in modals
    /\ ~dialog[k].loading
    /\ ~dialog[k].processing

\* The Confirm button: disabled={processing || loading || !text.trim()}.
ConfirmEnabled(k) ==
    /\ k \in modals
    /\ ~dialog[k].loading
    /\ ~dialog[k].processing
    /\ ~IsBlank(dialog[k].text)

\* handleTextChange
handleTextChange(k, t) ==
    /\ TextareaEnabled(k)
    /\ dialog' = [dialog EXCEPT ![k].text = t, ![k].error = NoError]
    /\ notices' = <<>>
    /\ UNCHANGED <<callVars, pluginVars, nextKey, modals, envVars, taskVars>>

\* handleClear
handleClear(k) ==
    /\ ClearEnabled(k)
    /\ dialog' = [dialog EXCEPT ![k].text = <<>>, ![k].error = NoError]
    /\ notices' = <<>>
    /\ UNCHANGED <<callVars, pluginVars, nextKey, modals, envVars, taskVars>>

\* close(): closeModal(key); this.currentModalKey = null
Close(k) ==
    /\ modals' = modals \ {k}
    /\ currentModalKey' = 0
    /\ dialog' = Unmount(dialog, k)
    /\ fetch' = AbandonFetch(k)
    /\ notices' = <<>>
    /\ UNCHANGED <<callVars, sinceClick, sinceAnyClick, cachedGuilds, lastGuildCount, nextKey,
                   envVars, run, assigned>>

\* The Exit button, disabled while processing.
Exit(k) ==
    /\ k \in modals
    /\ ~dialog[k].processing
    /\ Close(k)

\* The ModalCloseButton.
CloseButton(k) ==
    /\ k \in modals
    /\ Close(k)

\* handleClickOutside: a mousedown outside the dialog.
ClickOutside(k) ==
    /\ k \in modals
    /\ Close(k)

\* Both timers of processText clearing the busy flag only.
TimerElapsedKeepsError(k) ==
    /\ k \in modals
    /\ dialog[k].timer # "none"
    /\ dialog' = [dialog EXCEPT ![k].processing = FALSE, ![k].timer = "none"]
    /\ notices' = <<>>
    /\ UNCHANGED <<callVars, pluginVars, nextKey, modals, envVars, taskVars>>

\* The 3000 ms timer of processText fires.
TimerElapsed(k) ==
    /\ k \in modals
    /\ dialog[k].timer # "none"
    /\ dialog' = IF dialog[k].timer = "validation"
                 THEN [dialog EXCEPT ![k].processing = FALSE, ![k].error = NoError,
                                     ![k].timer = "none"]
                 ELSE [dialog EXCEPT ![k].processing = FALSE, ![k].timer = "none"]
    /\ notices' = <<>>
    /\ UNCHANGED <<callVars, pluginVars, nextKey, modals, envVars, taskVars>>

(***************************************************************************)
(* The dialog: processText                                                 *)
(***************************************************************************)

\* Where processText waits after it called addReaction without awaiting it.
AwaitPutNotAwaited == "pause"

\* Where processText waits after it called addReaction: for its result.
AwaitPut == "put"

\* One entry of the record of a run: the character at pos, the guild chosen
\* for it, the emoji found there (NoEmoji when missing) and the state of the
\* request: "missing" (none made), "pending", "ok" or "failed".
Assignment(pos, char, guild, emoji, status) ==
    [pos |-> pos, char |-> char, guild |-> guild.id, emoji |-> emoji,
     status |-> status]

\* The loop of processText giving up at the first missing emoji.
AdvanceUntilMissing(upperText, sortedGuilds, i, u, log) ==
    IF i > Len(upperText)
    THEN [pc |-> "done", i |-> i, u |-> u, log |-> log]
    ELSE IF Len(sortedGuilds) = 0
    THEN [pc |-> "threw", i |-> i, u |-> u, log |-> log]
    ELSE LET char == upperText[i]
             guild == sortedGuilds[Min(Usage(u, char), Len(sortedGuilds) - 1) + 1]
             emoji == FindEmoji(guild, EMOJI_TEXT_MAPPING[char])
         IN  IF emoji # NoEmoji
             THEN [pc |-> AwaitPut, i |-> i, u |-> u,
                   log |-> Append(log, Assignment(i, char, guild, emoji, "pending"))]
             ELSE [pc |-> "threw", i |-> i, u |-> u,
                   log |-> Append(log, Assignment(i, char, guild, emoji, "missing"))]

\* The loop of processText from character i on, with charUsageCount u, up to
\* the next addReaction call ("put"), the end of the loop ("done") or the
\* TypeError of guild.emojis on an undefined guild ("threw").
RECURSIVE Advance(_, _, _, _, _)
Advance(upperText, sortedGuilds, i, u, log) ==
    IF i > Len(upperText)
    THEN [pc |-> "done", i |-> i, u |-> u, log |-> log]
    ELSE IF Len(sortedGuilds) = 0
    THEN [pc |-> "threw", i |-> i, u |-> u, log |-> log]
    ELSE LET char == upperText[i]
             usageIndex == Usage(u, char)
             guildIndex == Min(usageIndex, Len(sortedGuilds) - 1)
             guild == sortedGuilds[guildIndex + 1]
             emojiName == EMOJI_TEXT_MAPPING[char]
             emoji == FindEmoji(guild, emojiName)
         IN  IF emoji # NoEmoji
             THEN [pc |-> AwaitPut, i |-> i, u |-> u,
                   log |-> Append(log, Assignment(i, char, guild, emoji, "pending"))]
             ELSE Advance(upperText, sortedGuilds, i + 1, Bump(u, char),
                          Append(log, Assignment(i, char, guild, emoji, "missing")))

\* processText from where the loop stands at a: it waits, ends with close()
\* or lands in its catch block; d is the React state so far.  The record of
\* a run that ended is history: it is kept when keep says so.
Proceed(k, a, r, d, keep) ==
    /\ assigned' = [assigned EXCEPT ![k] =
                        IF a.pc = "done" /\ ~keep THEN <<>> ELSE a.log]
    /\ run' = [run EXCEPT ![k] =
                   IF a.pc = "put" \/ a.pc = "pause" \/ keep
                   THEN [r EXCEPT !.pc = a.pc, !.i = a.i, !.charUsageCount = a.u]
                   ELSE NoRun]
    /\ notices' = <<>>
    /\ IF a.pc = "done"
       THEN /\ modals' = modals \ {k}
            /\ currentModalKey' = 0
            /\ dialog' = Unmount(d, k)
       ELSE IF a.pc = "threw"
       THEN /\ dialog' = IF k \in modals
                         THEN [d EXCEPT ![k].error = Err("PROCESSING_ERROR"),
                                        ![k].timer = "exception"]
                         ELSE d
            /\ UNCHANGED <<modals, currentModalKey>>
       ELSE /\ dialog' = d
            /\ UNCHANGED <<modals, currentModalKey>>

\* The Confirm button: processText up to its first wait.
processText(k, keep) ==
    /\ ConfirmEnabled(k)
    /\ LET upperText == toUpperCase(dialog[k].text)
           err == validateText(upperText, dialog[k].guilds)
           busy == [dialog EXCEPT ![k].processing = TRUE]
           sortedGuilds == SortGuilds(dialog[k].guilds)
           r == [NoRun EXCEPT !.upperText = upperText,
                              !.guilds = dialog[k].guilds,
                              !.sortedGuilds = sortedGuilds]
       IN  IF err # Valid
           THEN /\ dialog' = [busy EXCEPT ![k].error = err,
                                          ![k].timer = "validation"]
                /\ notices' = <<>>
                /\ UNCHANGED <<modals, currentModalKey, run, assigned>>
           ELSE Proceed(k, Advance(upperText, sortedGuilds, 1, <<>>, <<>>), r, busy,
                        keep)
    /\ UNCHANGED <<callVars, sinceClick, sinceAnyClick, cachedGuilds, lastGuildCount, nextKey,
                   envVars, fetch>>

\* processText pausing only after a request that succeeded.
AfterPutPauseIfOk(ok) == IF ok THEN "pause" ELSE "put"

\* Where processText stands once addReaction returned ok: its result is
\* dropped, the 350 ms pause comes next.
AfterPut(ok) == "pause"

\* The first pending request of run k, 0 when there is none.
FirstPending(k) ==
    IF \E p \in DOMAIN assigned[k] : assigned[k][p].status = "pending"
    THEN CHOOSE p \in DOMAIN assigned[k] :
             /\ assigned[k][p].status = "pending"
             /\ \A q \in 1 .. p - 1 : assigned[k][q].status # "pending"
    ELSE 0

\* The PUT of addReaction answers: addReaction returns true, or catches the
\* error and returns false; processText goes on to its 350 ms pause.
PutResponse(k, ok) ==
    /\ FirstPending(k) # 0
    /\ assigned' = [assigned EXCEPT ![k][FirstPending(k)].status =
                        IF ok THEN "ok" ELSE "failed"]
    /\ run' = IF run[k].pc = "put" THEN [run EXCEPT ![k].pc = AfterPut(ok)] ELSE run
    /\ notices' = <<>>
    /\ UNCHANGED <<callVars, pluginVars, nextKey, modals, envVars, dialog, fetch>>

\* The loop going on after its pause only while its dialog is open.
PauseElapsedWhileOpen(k, keep) ==
    /\ k \in modals
    /\ run[k].pc = "pause"
    /\ LET r == run[k]
           u == Bump(r.charUsageCount, r.upperText[r.i])
       IN  Proceed(k, Advance(r.upperText, r.sortedGuilds, r.i + 1, u, assigned[k]),
                   r, dialog, keep)
    /\ UNCHANGED <<callVars, sinceClick, sinceAnyClick, cachedGuilds, lastGuildCount, nextKey,
                   envVars, fetch>>

\* The 350 ms pause is over: charUsageCount[char]++ and the loop goes on.
PauseElapsed(k, keep) ==
    /\ run[k].pc = "pause"
    /\ LET r == run[k]
           u == Bump(r.charUsageCount, r.upperText[r.i])
       IN  Proceed(k, Advance(r.upperText, r.sortedGuilds, r.i + 1, u, assigned[k]),
                   r, dialog, keep)
    /\ UNCHANGED <<callVars, sinceClick, sinceAnyClick, cachedGuilds, lastGuildCount, nextKey,
                   envVars, fetch>>

(***************************************************************************)
(* The plugin, from its start                                              *)
(***************************************************************************)

G1 == GUILD_IDS[1]

\* The guild lists of the user: the first emoji guild, another guild.
Worlds == {<<G1>>, <<OtherGuildId>>}

\* The texts typed into a dialog.
Texts == {<<"h">>, <<"H", "H">>}

\* The emoji names of the characters the model's dialogs type.
Names == {EMOJI_TEXT_MAPPING[c] : c \in {"H", "I"}}

Init ==
    /\ InitPlugin
    /\ NoCall
    /\ userGuilds \in Worlds
    /\ catalog = [g \in targetGuildIds |-> Names]

Next ==
    \/ Tick(TickMs)
    \/ \E w \in Worlds : GuildsChange(w)
    \/ \E channel \in ChannelKinds, canReact, canExt \in BOOLEAN :
           onClick(channel, canReact, canExt)
    \/ \E k \in Keys : fetchGuilds(k)
    \/ \E k \in Keys, ok \in BOOLEAN : GuildsResponse(k, ok)
    \/ \E k \in Keys, ok \in BOOLEAN : EmojisResponse(k, ok)
    \/ \E k \in Keys, t \in Texts : handleTextChange(k, t)
    \/ \E k \in Keys : handleClear(k)
    \/ \E k \in Keys : Exit(k)
    \/ \E k \in Keys : CloseButton(k)
    \/ \E k \in Keys : ClickOutside(k)
    \/ \E k \in Keys : TimerElapsed(k)
    \/ \E k \in Keys : processText(k, FALSE)
    \/ \E k \in Keys, ok \in BOOLEAN : PutResponse(k, ok)
    \/ \E k \in Keys : PauseElapsed(k, FALSE)

Spec == Init /\ [][Next]_vars

(***************************************************************************)
(* The plugin and the lookups of its dialogs, with nothing typed           *)
(***************************************************************************)

G2 == GUILD_IDS[2]

\* The guild lists of the user: no emoji guild, one, and two emoji guilds out
\* of priority order around another guild.
LookupWorlds == {<<OtherGuildId>>, <<G1>>, <<G2, OtherGuildId, G1>>}

InitLookup ==
    /\ InitPlugin
    /\ NoCall
    /\ userGuilds \in LookupWorlds
    /\ catalog = [g \in targetGuildIds |->
                     IF g = G2 THEN {EMOJI_TEXT_MAPPING["H"]} ELSE Names]

NextLookup ==
    \/ Tick(CLICK_COOLDOWN)
    \/ \E w \in LookupWorlds : GuildsChange(w)
    \/ onClick("private", TRUE, TRUE)
    \/ \E k \in Keys : fetchGuilds(k)
    \/ \E k \in Keys, ok \in BOOLEAN : GuildsResponse(k, ok)
    \/ \E k \in Keys, ok \in BOOLEAN : EmojisResponse(k, ok)
    \/ \E k \in Keys : CloseButton(k)

SpecLookup == InitLookup /\ [][NextLookup]_vars

(***************************************************************************)
(* One dialog, from the moment its guilds are loaded                       *)
(***************************************************************************)

\* The characters typed into the dialog.
RunChars == {"H", "I"}

RunTexts == UNION {[1 .. m -> RunChars] : m \in 0 .. MaxRunLen}

\* The priorities of the guilds a shuffled membership answer is drawn from.
RunGuildPool == {1, 2, 5}

Perms(S) == {f \in [1 .. Cardinality(S) -> S] : \A i, j \in DOMAIN f : i # j => f[i] # f[j]}

\* The membership answers, as lists of priorities: the guilds of a non-empty
\* part of the pool in any order, or all of GUILD_IDS in priority order.
RunOrders ==
    UNION {Perms(S) : S \in SUBSET RunGuildPool \ {{}}}
        \cup {[p \in DOMAIN GUILD_IDS |-> p]}

\* The catalogs: complete, or one guild of the answer lacks some emojis.
RunLacks(o) ==
    {[p \in DOMAIN GUILD_IDS |-> {}]}
        \cup {[p \in DOMAIN GUILD_IDS |-> IF p = o[i] THEN L ELSE {}] :
                 i \in DOMAIN o, L \in SUBSET Names \ {{}}}

RunGuildLists ==
    {[i \in DOMAIN o |-> GuildEntry(GUILD_IDS[o[i]], Names \ lack[o[i]])] :
        o \in RunOrders, lack \in UNION {RunLacks(o2) : o2 \in RunOrders}}

\* Dialog 1 is open and fetchGuilds has stored the list of getUserGuilds.
InitRun ==
    /\ NoCall
    /\ sinceClick = CLICK_COOLDOWN
    /\ sinceAnyClick = CLICK_COOLDOWN
    /\ currentModalKey = 1
    /\ nextKey = 2
    /\ modals = {1}
    /\ notices = <<>>
    /\ \E gl \in RunGuildLists :
          /\ dialog = [k \in Keys |->
                          IF k = 1
                          THEN [InitialDialog EXCEPT !.guilds = gl, !.loading = FALSE]
                          ELSE InitialDialog]
          /\ cachedGuilds = gl
          /\ lastGuildCount = Len(gl)
          /\ userGuilds = [i \in DOMAIN gl |-> gl[i].id]
          /\ catalog = [g \in targetGuildIds |->
                           IF \E i \in DOMAIN gl : gl[i].id = g
                           THEN LET i == CHOOSE i \in DOMAIN gl : gl[i].id = g
                                IN  {e.name : e \in gl[i].emojis}
                           ELSE Names]
    /\ fetch = [k \in Keys |-> IF k = 1 THEN DoneFetch ELSE NoFetch]
    /\ run = [k \in Keys |-> NoRun]
    /\ assigned = [k \in Keys |-> <<>>]

NextRun ==
    \/ \E t \in RunTexts : handleTextChange(1, t)
    \/ handleClear(1)
    \/ processText(1, TRUE)
    \/ \E ok \in BOOLEAN : PutResponse(1, ok)
    \/ PauseElapsed(1, TRUE)
    \/ TimerElapsed(1)
    \/ Exit(1)
    \/ CloseButton(1)
    \/ ClickOutside(1)

SpecRun == InitRun /\ [][NextRun]_vars

\* Every PUT is answered in the end, with success or failure.
AnswerPut == \E ok \in BOOLEAN : PutResponse(1, ok)

\* The same, with every request answered and every timer of the run firing.
SpecRunFair ==
    /\ SpecRun
    /\ WF_vars(AnswerPut)
    /\ WF_vars(PauseElapsed(1, TRUE))

(***************************************************************************)
(* Properties of a processing run                                          *)
(***************************************************************************)

\* The runs that passed validation and entered the loop.
Started(k) == run[k].pc \in {"put", "pause", "done"}
Ended(k) == run[k].pc = "done"

\* The guild of the run's guilds that has exactly n guilds of higher
\* priority (a smaller number in GUILD_IDS) before it.
PriorityNumber(gid) == CHOOSE p \in 1 .. 6 : GUILD_IDS[p] = gid
NthByPriority(k, n) ==
    CHOOSE g \in {run[k].guilds[i].id : i \in DOMAIN run[k].guilds} :
        Cardinality({i \in DOMAIN run[k].guilds :
            PriorityNumber(run[k].guilds[i].id) < PriorityNumber(g)}) = n

\* The occurrences of the character at pos before pos.
EarlierOccurrences(k, pos) ==
    Cardinality({q \in 1 .. pos - 1 : run[k].upperText[q] = run[k].upperText[pos]})

\* C4: in a run that passed validation no two occurrences of a character are
\* assigned to the same space, skipped occurrences included.
C4_OneSpacePerOccurrence ==
    \A k \in Keys : Started(k) =>
        \A p, q \in DOMAIN assigned[k] :
            (p # q /\ assigned[k][p].char = assigned[k][q].char)
                => assigned[k][p].guild # assigned[k][q].guild

\* A run ended in which a character occurred three times, its second
\* occurrence skipped for a missing emoji and the others requested.
C4_Witness ==
    /\ Ended(1)
    /\ \E p, q, r \in DOMAIN assigned[1] :
          /\ p < q /\ q < r
          /\ assigned[1][p].char = assigned[1][q].char
          /\ assigned[1][q].char = assigned[1][r].char
          /\ assigned[1][p].status # "missing"
          /\ assigned[1][q].status = "missing"
          /\ assigned[1][r].status # "missing"

\* C5: the j-th occurrence (from 0) of a character is assigned to the space
\* at index min(j, n - 1) of the n available spaces in priority order,
\* whatever the order of the membership answer and whatever the other
\* characters; skipped occurrences count.
C5_ByOccurrenceAndPriority ==
    \A k \in Keys : Started(k) =>
        \A p \in DOMAIN assigned[k] :
            /\ assigned[k][p].pos = p
            /\ assigned[k][p].char = run[k].upperText[p]
            /\ assigned[k][p].guild =
                  NthByPriority(k, Min(EarlierOccurrences(k, p),
                                       Len(run[k].guilds) - 1))

\* A run ended on a membership answer that was not in priority order, with a
\* character whose first occurrence was skipped and whose second occurrence
\* came after another character.
C5_Witness ==
    /\ Ended(1)
    /\ \E i \in 1 .. Len(run[1].guilds) - 1 :
          PriorityNumber(run[1].guilds[i].id) > PriorityNumber(run[1].guilds[i + 1].id)
    /\ Len(assigned[1]) = 3
    /\ assigned[1][1].char = assigned[1][3].char
    /\ assigned[1][1].char # assigned[1][2].char
    /\ assigned[1][1].status = "missing"
    /\ assigned[1][3].status = "ok"

\* The directives of a run: (character, space, emoji name) of each request.
Requests(k) == SelectSeq(assigned[k], LAMBDA e : e.status # "missing")
Directives(k) ==
    [p \in DOMAIN Requests(k) |->
        <<Requests(k)[p].char, Requests(k)[p].guild, Requests(k)[p].emoji.name>>]

\* All 6 spaces in priority order, the two first with every emoji.
SixSpacesInOrder(k) ==
    /\ Len(run[k].guilds) = 6
    /\ \A p \in 1 .. 6 : run[k].guilds[p].id = GUILD_IDS[p]
    /\ \A p \in 1 .. 2 : {e.name : e \in run[k].guilds[p].emojis} = {"H_", "I_"}

C6_Premise(k) == Ended(k) /\ run[k].upperText = <<"H", "I">> /\ SixSpacesInOrder(k)

\* C6 as stated: "HI" on the 6 spaces yields (H, space1, H_), (I, space2, I_).
C6_SecondLetterSecondSpace ==
    \A k \in Keys : C6_Premise(k) =>
        Directives(k) = << <<"H", GUILD_IDS[1], "H_">>, <<"I", GUILD_IDS[2], "I_">> >>

\* C6, amended: "HI" on the 6 spaces yields (H, space1, H_), (I, space1, I_).
C6_BothLettersFirstSpace ==
    \A k \in Keys : C6_Premise(k) =>
        Directives(k) = << <<"H", GUILD_IDS[1], "H_">>, <<"I", GUILD_IDS[1], "I_">> >>

\* The run of "HI" on the 6 spaces has ended.
C6_Witness == C6_Premise(1) /\ Len(Requests(1)) = 2

\* Whether the space chosen for an entry holds the emoji of its character.
HasEmoji(k, e) ==
    \E i \in DOMAIN run[k].guilds :
        /\ run[k].guilds[i].id = e.guild
        /\ \E x \in run[k].guilds[i].emojis : x.name = EMOJI_TEXT_MAPPING[e.char]

\* C7: the requests of a run are made one at a time, in text order, each
\* after the one before completed; a failed request prevents none of the
\* later ones: when the run ends every character whose emoji exists had its
\* request.
C7_OneAtATimeAndAll ==
    \A k \in Keys : Started(k) =>
        /\ \A p \in DOMAIN assigned[k] :
              assigned[k][p].status = "pending" => p = Len(assigned[k])
        /\ \A p, q \in DOMAIN assigned[k] :
              p < q => assigned[k][p].pos < assigned[k][q].pos
        /\ Ended(k) =>
              /\ {assigned[k][p].pos : p \in DOMAIN assigned[k]} = DOMAIN run[k].upperText
              /\ \A p \in DOMAIN assigned[k] :
                    IF HasEmoji(k, assigned[k][p])
                    THEN assigned[k][p].status \in {"ok", "failed"}
                    ELSE assigned[k][p].status = "missing"

\* A run ended whose first request failed and whose two later requests were
\* made all the same.
C7_Witness ==
    /\ Ended(1)
    /\ Len(assigned[1]) = 3
    /\ assigned[1][1].status = "failed"
    /\ assigned[1][2].status = "failed"
    /\ assigned[1][3].status = "ok"

(***************************************************************************)
(* Properties of the entry point                                           *)
(***************************************************************************)

\* C8 (as stated): in every reachable state, whatever the interleaving of
\* clicks on the action, dialog closes, lookup completions and run
\* completions, at most one dialog is open.
C8_AtMostOneDialog == Cardinality(modals) <= 1

\* A click on the action, made in a channel of this kind while the
\* PermissionStore answers canReact and canExt.
Clicked(channel, canReact, canExt) == onClick(channel, canReact, canExt)

\* What C9 says of a click by a user holding react (reaction-add) and ext
\* (external-emoji-use) in the channel: openModal is called only with both;
\* without both exactly the one notice goes out, no dialog opens and the
\* handle stays.
ClickOutcome(react, ext) ==
    /\ nextKey' # nextKey => react /\ ext
    /\ ~react =>
          /\ notices' = <<"NO_REACT_PERMISSION">>
          /\ UNCHANGED <<modals, nextKey, currentModalKey>>
    /\ react /\ ~ext =>
          /\ notices' = <<"NO_NITRO">>
          /\ UNCHANGED <<modals, nextKey, currentModalKey>>

\* C9 (as stated): every click on the action opens the dialog only if the
\* user holds both capabilities in the channel, and lacking one it emits
\* only that capability's notice and leaves the dialogs and the handle alone.
C9_AnyClick ==
    [][\A channel \in ChannelKinds, canReact, canExt \in BOOLEAN :
          Clicked(channel, canReact, canExt) =>
              ClickOutcome(hasPermission(channel, canReact),
                           hasPermission(channel, canExt))]_vars

\* C9 (amended): a click on the action that the debounce lets through and
\* that finds no stored handle opens the dialog only if the user holds both
\* capabilities in the channel, and lacking one it emits only that
\* capability's notice and leaves the dialogs and the handle alone.
C9_ClickWithNoHandle ==
    [][\A channel \in ChannelKinds, canReact, canExt \in BOOLEAN :
          (/\ sinceClick >= CLICK_COOLDOWN
           /\ currentModalKey = 0
           /\ Clicked(channel, canReact, canExt)) =>
              ClickOutcome(hasPermission(channel, canReact),
                           hasPermission(channel, canExt))]_vars

\* A dialog was opened and closed, and the click after it was refused for
\* the external-emoji capability.
C9_Witness ==
    /\ notices = <<"NO_NITRO">>
    /\ sinceClick = 0
    /\ nextKey = 2
    /\ modals = {}
    /\ currentModalKey = 0

(***************************************************************************)
(* Properties of the lookups                                               *)
(***************************************************************************)

\* The ids of a list of guild entries.
Ids(list) == [i \in DOMAIN list |-> list[i].id]

\* list is an answer built from the membership body: one entry for each of
\* its guilds of GUILD_IDS, in its order, each with what the catalog request
\* of that guild gave (the catalog, or nothing when the request failed).
BuiltFrom(list, body) ==
    /\ Ids(list) = SelectIn(body, targetGuildIds)
    /\ \A i \in DOMAIN list :
          \/ list[i] = GuildEntry(list[i].id, catalog[list[i].id])
          \/ list[i] = GuildEntry(list[i].id, {})

\* The lookup of dialog k starts: from the cache when that is filled and the
\* count is the last one seen, with nothing requested and nothing written;
\* else by writing the count it sees and requesting the membership.
LookupStarts(k) ==
    fetchGuilds(k) =>
        IF Len(cachedGuilds) > 0 /\ Len(userGuilds) = lastGuildCount
        THEN /\ fetch'[k].pc = "done"
             /\ dialog'[k].guilds = cachedGuilds
             /\ UNCHANGED <<cachedGuilds, lastGuildCount>>
        ELSE /\ fetch'[k].pc = "guilds"
             /\ lastGuildCount' = Len(userGuilds)

\* The lookup of dialog k goes on: the membership answer is the user's guilds
\* or, failed, none; a catalog is requested for each of its guilds of
\* GUILD_IDS in turn and for no other.
LookupGoesOn(k) ==
    /\ fetch[k].pc = "guilds" /\ fetch'[k].pc = "emojis" =>
          /\ fetch'[k].body = userGuilds
          /\ fetch'[k].joined = <<>>
    /\ fetch'[k].pc = "emojis" =>
          /\ fetch'[k].body[fetch'[k].idx] \in targetGuildIds
          /\ BuiltFrom(fetch'[k].joined,
                       SubSeq(fetch'[k].body, 1, fetch'[k].idx - 1))

\* The lookup of dialog k ends after its requests: the cache becomes the
\* list built from the whole membership answer, and the dialog, if still
\* open, gets that list when it is not empty.
LookupEnds(k) ==
    /\ fetch[k].pc = "guilds" /\ fetch'[k].pc = "done" =>
          cachedGuilds' = <<>>
    /\ fetch[k].pc = "emojis" /\ fetch'[k].pc = "done" =>
          /\ BuiltFrom(cachedGuilds', fetch[k].body)
          /\ Len(cachedGuilds') > 0
          /\ k \in modals => dialog'[k].guilds = cachedGuilds'

\* Nothing but a lookup that ends after its requests writes the cache, and
\* nothing but a lookup that starts them writes the count.
WrittenByLookups ==
    /\ cachedGuilds' # cachedGuilds =>
          \E k \in Keys : fetch[k].pc \in {"guilds", "emojis"} /\ fetch'[k].pc = "done"
    /\ lastGuildCount' # lastGuildCount =>
          \E k \in Keys : fetch[k].pc = "mount" /\ fetch'[k].pc = "guilds"

\* C10: a lookup that sees a filled cache and the last-seen count returns the
\* cache untouched and requests nothing; any other lookup writes the count
\* it sees, requests the membership and the catalog of every joined guild of
\* GUILD_IDS, and replaces the cache with exactly the list so built.
C10_CachedOrFetched ==
    [][/\ \A k \in Keys : LookupStarts(k) /\ LookupGoesOn(k) /\ LookupEnds(k)
       /\ WrittenByLookups]_vars

\* A lookup found two guilds of GUILD_IDS around another guild and cached
\* both, and a later dialog was served from that cache.
C10_Witness ==
    /\ Ids(cachedGuilds) = <<G2, G1>>
    /\ userGuilds = <<G2, OtherGuildId, G1>>
    /\ \E k \in modals :
          /\ k > 1
          /\ fetch[k].pc = "done"
          /\ dialog[k].guilds = cachedGuilds
          /\ \A o \in Keys : fetch[o].pc \in {"mount", "done"}

\* The lookup of dialog k ends with no guild of GUILD_IDS: the membership
\* request failed (fetchUserGuilds gave []) or the answer names none.
EndsEmpty(k) ==
    \E ok \in BOOLEAN :
        /\ GuildsResponse(k, ok)
        /\ ~ok \/ SelectIn(userGuilds, targetGuildIds) = <<>>

\* An open dialog that has left Loading.
Loaded(k) == k \in modals /\ ~dialog[k].loading

\* C11: a lookup that fails or finds no guild of GUILD_IDS makes its dialog
\* emit the NOT_IN_SERVER notice and close, and a dialog that is open and no
\* longer loading holds a non-empty guild list.
C11_EmptyLookupCloses ==
    [][\A k \in Keys :
          /\ EndsEmpty(k) =>
                /\ notices' = <<"NOT_IN_SERVER">>
                /\ k \notin modals'
          /\ Loaded(k)' => Len(dialog'[k].guilds) > 0]_vars

\* The lookup of the first dialog has just ended with nothing: the notice
\* is out and no dialog is open.
C11_Witness ==
    /\ notices = <<"NOT_IN_SERVER">>
    /\ fetch[1].pc = "done"
    /\ cachedGuilds = <<>>
    /\ nextKey = 2
    /\ modals = {}

(***************************************************************************)
(* Properties of the pauses of a run                                       *)
(***************************************************************************)

\* The request of the run of dialog k that is answered in this step, as it
\* stands after the answer; <<>> when the step answers none.
Answered(k) ==
    LET p == FirstPending(k)
    IN  IF p # 0 /\ assigned'[k][p].status # "pending"
        THEN <<assigned'[k][p]>>
        ELSE <<>>

\* C12 (as stated): the 350 ms pause follows a request only if the request
\* succeeded and is not the last of the run (as it is not when it is for the
\* last character of the text).
C12_PauseAfterSuccessNotLast ==
    [][(Answered(1) # <<>> /\ run'[1].pc = "pause") =>
          /\ Answered(1)[1].status = "ok"
          /\ Answered(1)[1].pos < Len(run[1].upperText)]_vars

\* C12 (amended): the 350 ms pause follows every request, failed or last
\* included, and nothing else: the run stands in its pause right after each
\* answer, and enters the pause by an answer only.
C12_PauseAfterEveryRequest ==
    [][/\ Answered(1) # <<>> => run'[1].pc = "pause" /\ run'[1].i = Answered(1)[1].pos
       /\ (run'[1].pc = "pause" /\ run[1].pc # "pause") => Answered(1) # <<>>]_vars

\* The run pauses after the request for the last character of a two-letter
\* text failed.
C12_Witness ==
    /\ run[1].pc = "pause"
    /\ Len(run[1].upperText) = 2
    /\ run[1].i = 2
    /\ Len(assigned[1]) = 2
    /\ assigned[1][2].status = "failed"

\* The lookup of dialog o is in flight, refetching because it found the
\* cache filled but the count changed, and the cache is still the list it
\* found outdated.
RefetchInFlight(o) ==
    /\ fetch[o].pc \in {"guilds", "emojis"}
    /\ fetch[o].stale # <<>>
    /\ cachedGuilds = fetch[o].stale

\* C13 (as stated): a lookup that starts while another lookup's refetch,
\* begun after the count changed, is still in flight refetches as well, and
\* does not return the list cached under the old count.
C13_SecondAlsoRefetches ==
    [][\A k, o \in Keys :
          (k # o /\ RefetchInFlight(o) /\ fetchGuilds(k)) =>
              /\ fetch'[k].pc = "guilds"
              /\ dialog'[k].guilds # fetch[o].stale]_vars

(***************************************************************************)
(* Properties of runs and dialogs together                                 *)
(***************************************************************************)

\* The run of dialog k is in flight: it awaits a request or pauses.
InFlight(k) == run[k].pc \in {"put", "pause"}

\* C14 (as stated): at no time are two processing runs in flight together.
C14_OneRunAtATime == Cardinality({k \in Keys : InFlight(k)}) <= 1

\* The dialog of run k was closed and the run is still in flight.
ClosedInFlight(k) == InFlight(k) /\ k \notin modals

\* The run of dialog k is over and every character of its text whose emoji
\* exists in its space had its request.
AllRequested(k) ==
    /\ Ended(k)
    /\ {assigned[k][p].pos : p \in DOMAIN assigned[k]} = DOMAIN run[k].upperText
    /\ \A p \in DOMAIN assigned[k] :
          HasEmoji(k, assigned[k][p]) => assigned[k][p].status \in {"ok", "failed"}

\* C15: once the dialog is closed with its run in flight the handle is
\* null, and the run goes on to its end: every request that remained is made.
C15_LoopGoesOnAfterClose ==
    /\ [](ClosedInFlight(1) => currentModalKey = 0)
    /\ ClosedInFlight(1) ~> AllRequested(1)

\* The dialog is closed, the first request of its run has failed and the
\* request for the third character is out.
C15_Witness ==
    /\ ClosedInFlight(1)
    /\ run[1].pc = "put"
    /\ run[1].i = 3
    /\ assigned[1][1].status = "failed"
    /\ assigned[1][3].status = "pending"

(***************************************************************************)
(* Properties of the error flash                                           *)
(***************************************************************************)

\* What validateText answers the text of dialog k on Confirm.
Verdict(k) == validateText(toUpperCase(dialog[k].text), dialog[k].guilds)

\* Dialog k shows a validation error and its 3000 ms timer is pending.
Flashing(k) == k \in modals /\ dialog[k].timer = "validation"

\* Dialog k is open, loaded, not busy and shows no error.
Idle(k) ==
    /\ Loaded(k)
    /\ ~dialog[k].processing
    /\ dialog[k].error = NoError

\* C16: a Confirm that fails validation leaves the dialog open with the
\* error and the busy flag set and the 3000 ms timer pending; until the timer
\* fires the textarea, Clear and Confirm are all disabled and nothing
\* changes the dialog or starts a run; when it fires the error and the busy
\* flag are cleared together, the text is kept, and the textarea, Clear and
\* Confirm are enabled again.
C16_ErrorFlash ==
    [][/\ (processText(1, TRUE) /\ Verdict(1) # Valid) =>
             /\ Flashing(1)'
             /\ dialog'[1] = [dialog[1] EXCEPT !.error = Verdict(1),
                                               !.processing = TRUE,
                                               !.timer = "validation"]
       /\ Flashing(1) =>
             ~(TextareaEnabled(1) \/ ClearEnabled(1) \/ ConfirmEnabled(1))
       /\ (Flashing(1) /\ 1 \in modals') =>
             /\ run'[1] = run[1]
             /\ \/ dialog'[1] = dialog[1]
                \/ /\ dialog'[1] = [dialog[1] EXCEPT !.error = NoError,
                                                    !.processing = FALSE,
                                                    !.timer = "none"]
                   /\ Idle(1)'
                   /\ TextareaEnabled(1)' /\ ClearEnabled(1)' /\ ConfirmEnabled(1)']_vars

\* "HH" was confirmed with one space available: the dialog shows the
\* single-character error, busy, with its timer pending.
C16_Witness ==
    /\ Flashing(1)
    /\ dialog[1].text = <<"H", "H">>
    /\ Len(dialog[1].guilds) = 1
    /\ dialog[1].processing
    /\ dialog[1].error = ErrWith("SINGLE_CHAR_LIMIT", <<"H">>)

(***************************************************************************)
(* Termination of a run                                                    *)
(***************************************************************************)

\* The run of dialog k is over, its dialog closed and the handle null.
ClosedByRun(k) == Ended(k) /\ k \notin modals /\ currentModalKey = 0

\* C17: when every request is answered, a Confirm that passes validation
\* leads to the dialog closed and the handle null, whatever requests fail and
\* whatever emojis are missing.
C17_RunEndsAndCloses == Started(1) ~> ClosedByRun(1)

\* A run of three characters is over with a failed request, a missing emoji
\* and a request that succeeded; the dialog is closed.
C17_Witness ==
    /\ ClosedByRun(1)
    /\ Len(assigned[1]) = 3
    /\ \E p, q, r \in 1 .. 3 :
          /\ assigned[1][p].status = "failed"
          /\ assigned[1][q].status = "missing"
          /\ assigned[1][r].status = "ok"

(***************************************************************************)
(* Properties of the debounce                                              *)
(***************************************************************************)

\* A click that is dropped: it opens no dialog, closes none and emits no
\* notice.
Dropped ==
    /\ UNCHANGED <<modals, nextKey, currentModalKey>>
    /\ notices' = <<>>

\* C18 (as stated): a click less than 250 ms after the previous click, whether
\* that one was dropped or not, is dropped.
C18_DroppedAfterAnyClick ==
    [][\A channel \in ChannelKinds, canReact, canExt \in BOOLEAN :
          (sinceAnyClick < CLICK_COOLDOWN /\ Clicked(channel, canReact, canExt))
              => Dropped]_vars

\* C18 (amended): a click less than 250 ms after the previous click that was
\* not dropped is dropped, and does not restart the 250 ms.
C18_DroppedAfterAcceptedClick ==
    [][\A channel \in ChannelKinds, canReact, canExt \in BOOLEAN :
          (sinceClick < CLICK_COOLDOWN /\ Clicked(channel, canReact, canExt))
              => Dropped /\ sinceClick' = sinceClick]_vars

\* Dialog 1 is open and a click made 125 ms after the click that opened it
\* has just been dropped.
C18_Witness ==
    /\ sinceAnyClick = 0
    /\ sinceClick = TickMs
    /\ modals = {1}
    /\ currentModalKey = 1
    /\ nextKey = 2

(***************************************************************************)
(* Properties of the stored handle                                         *)
(***************************************************************************)

\* C19 (as stated): in every reachable state the handle is non-null exactly
\* when a dialog is open, and then it is the key of that dialog; no late
\* close of an earlier dialog clears the handle of a later one.
C19_HandleIsTheOpenDialog ==
    /\ currentModalKey # 0 <=> modals # {}
    /\ currentModalKey # 0 => modals = {currentModalKey}

(***************************************************************************)
(* Properties of validateText and the loop together                        *)
(***************************************************************************)

\* The loop of processText on the input once validateText let it pass, up to
\* its first wait.
LoopOnInput ==
    Advance(toUpperCase(input), SortGuilds(inputGuilds), 1, <<>>, <<>>)

\* C20: with an empty guild list validateText rejects every text that has a
\* character other than the space, so whatever validateText lets pass runs
\* the loop on at least one guild: the loop picks a guild that exists for its
\* first character and does not throw.
C20_NoLoopWithoutGuilds ==
    Returned =>
        /\ (inputGuilds = <<>> /\ ~OnlyWhitespace) => result[1] # Valid
        /\ result[1] = Valid =>
              /\ Len(SortGuilds(inputGuilds)) > 0
              /\ LoopOnInput.pc # "threw"
              /\ \A p \in DOMAIN LoopOnInput.log :
                    LoopOnInput.log[p].guild \in
                        {inputGuilds[i].id : i \in DOMAIN inputGuilds}

\* validateText rejected "A" for a dialog without guilds, by its guild rule.
C20_Witness ==
    /\ Returned
    /\ inputGuilds = <<>>
    /\ input = <<"A">>
    /\ result[1] = ErrWith("SINGLE_CHAR_LIMIT", <<"A">>)

====
